---- MODULE Spec2Model ----
(***************************************************************************)
(* A model of gosom/simplemigrate: the Migrator (Migrate, readMigrations,  *)
(* validate, listFiles, computeHash) and the sqlite driver it runs on      *)
(* (CreateMigrationsTable, SelectMigrations, ApplyMigrations, applyOne).   *)
(*                                                                         *)
(* Strings are sequences of one-character strings, so that file names and  *)
(* file contents are parsed, trimmed and split the way the code does it.   *)
(***************************************************************************)
EXTENDS Integers, Sequences, FiniteSets, TLC

\* ------------------------------------------------------------------ bounds

\* The largest number of entries the migrations folder holds.
MaxFiles == 3

\* The most files in the folder that two concurrent runs work on.
MaxRaceFiles == 2

\* The most pieces (a letter, a blank, a dash, the marker) a file content of
\* the runs on one file is put together from.
MaxPieces == 3

\* ----------------------------------------------------------------- strings

Digits == <<"0", "1", "2", "3", "4", "5", "6", "7", "8", "9">>

IsDigit(c) == \E d \in 1..Len(Digits) : Digits[d] = c

DigitVal(c) == (CHOOSE d \in 1..Len(Digits) : Digits[d] = c) - 1

\* unicode.IsSpace on the characters the model uses.
IsSpace(c) == c \in {" ", "\n", "\t"}

\* s[from:] of Go, with from counted from 0.
Drop(s, from) == SubSeq(s, from + 1, Len(s))

\* s[:to] of Go.
Take(s, to) == SubSeq(s, 1, to)

HasPrefix(s, pre) == Len(s) >= Len(pre) /\ Take(s, Len(pre)) = pre

HasSuffix(s, suf) == Len(s) >= Len(suf) /\ Drop(s, Len(s) - Len(suf)) = suf

\* strings.Index(s, sep): the 0-based position of the first occurrence, or -1.
Index(s, sep) ==
    LET hits == {i \in 0..(Len(s) - Len(sep)) : HasPrefix(Drop(s, i), sep)}
    IN  IF hits = {} THEN -1 ELSE CHOOSE i \in hits : \A j \in hits : i <= j

\* bytes.TrimSpace: leading and trailing white space removed.
TrimSpace(b) ==
    LET keep == {i \in 1..Len(b) : ~IsSpace(b[i])}
    IN  IF keep = {} THEN <<>>
        ELSE LET lo == CHOOSE i \in keep : \A j \in keep : i <= j
                 hi == CHOOSE i \in keep : \A j \in keep : j <= i
             IN  SubSeq(b, lo, hi)

\* A split that trims the white space around every piece.
RECURSIVE SplitTrimmed(_, _)
SplitTrimmed(s, sep) ==
    LET i == Index(s, sep)
    IN  IF i = -1 THEN <<TrimSpace(s)>>
        ELSE <<TrimSpace(Take(s, i))>>
             \o SplitTrimmed(Drop(s, i + Len(sep)), sep)

\* strings.Split(s, sep) for a non-empty sep: the pieces between the
\* successive non-overlapping occurrences of sep, found left to right.
RECURSIVE Split(_, _)
Split(s, sep) ==
    LET i == Index(s, sep)
    IN  IF i = -1 THEN <<s>>
        ELSE <<Take(s, i)>> \o Split(Drop(s, i + Len(sep)), sep)

\* The statement separator of readMigrations.
Marker == <<"-", "-", " ", "m", "i", "g", "r", "a", "t", "e", ":", "n", "e", "x", "t">>

\* The extension listFiles asks for.
SqlExt == <<".", "s", "q", "l">>

\* fmt.Sscanf(s, "%d", &v): leading spaces are skipped, an optional sign is
\* accepted, then at least one digit is needed; the digits are read as far as
\* they go and whatever follows them is left unread, which is no error.
RECURSIVE SkipSpace(_)
SkipSpace(s) == IF s # <<>> /\ IsSpace(s[1]) THEN SkipSpace(Tail(s)) ELSE s

RECURSIVE ScanNumber(_, _)
ScanNumber(s, acc) ==
    IF s # <<>> /\ IsDigit(s[1])
    THEN ScanNumber(Tail(s), acc * 10 + DigitVal(s[1]))
    ELSE acc

Sscanf(s) ==
    LET t    == SkipSpace(s)
        neg  == t # <<>> /\ t[1] = "-"
        u    == IF t # <<>> /\ t[1] \in {"+", "-"} THEN Tail(t) ELSE t
    IN  IF u = <<>> \/ ~IsDigit(u[1])
        THEN [ok |-> FALSE, val |-> 0]
        ELSE [ok |-> TRUE,
              val |-> IF neg THEN 0 - ScanNumber(u, 0) ELSE ScanNumber(u, 0)]

\* computeHash on the bytes of a buffer that was never filled: one digest for
\* every file.
computeHashOfNothing(b) == <<"sha256">>

\* computeHash: the hex form of the SHA-256 digest of the bytes. The digest is
\* taken as collision free: equal digests only for equal byte sequences.
computeHash(b) == <<"sha256">> \o b

\* ------------------------------------------------------------ the Migrator

\* Migration: the fields of the struct; AppliedAt is "nil" for a migration
\* read from the folder and "set" for one selected from the tracking table.
NewMigration(version, fname, statements, hash) ==
    [Version |-> version, Fname |-> fname, AppliedAt |-> "nil",
     Statements |-> statements, Hash |-> hash]

\* The functional options of New.
Options ==
    {"WithInTransaction", "WithQueryValidator", "WithMigrationTable",
     "WithSystemFS"}

defaultMigrationsTable == "schema_migrations"

\* The option lists that New is called with: any of the two flags, or a
\* table name (the empty one, or a name), or a root folder (the empty path,
\* or a path); table and root are the arguments of WithMigrationTable and
\* WithSystemFS and mean nothing when the option is not given.
Configs ==
    {[opts |-> o, table |-> "", root |-> ""] :
        o \in SUBSET {"WithInTransaction", "WithQueryValidator"}}
    \cup {[opts |-> {"WithMigrationTable"}, table |-> t, root |-> ""] :
            t \in {"", "t"}}
    \cup {[opts |-> {"WithSystemFS"}, table |-> "", root |-> r] :
            r \in {"", "dir"}}

\* isDir: os.Stat finds a directory at the path; no directory has the empty
\* path.
isDir(path, exists) == path # "" /\ exists

\* New: the defaults, then the options applied, the first error of an option
\* being the panic of New; without WithSystemFS the root is "migrations",
\* whether it exists or not.
New(cfg, exists) ==
    [err             |-> IF "WithMigrationTable" \in cfg.opts /\ cfg.table = ""
                         THEN "ErrMigrationTableNameMissing"
                         ELSE IF /\ "WithSystemFS" \in cfg.opts
                                 /\ ~isDir(cfg.root, exists)
                              THEN "ErrMigrationFolder"
                              ELSE "nil",
     migrationsTable |-> IF "WithMigrationTable" \in cfg.opts THEN cfg.table
                         ELSE defaultMigrationsTable,
     root            |-> IF "WithSystemFS" \in cfg.opts THEN cfg.root
                         ELSE "migrations",
     inTransaction   |-> "WithInTransaction" \in cfg.opts,
     qvalidator      |-> "WithQueryValidator" \in cfg.opts]

\* A listing that looks for a subdirectory among all entries before it looks
\* at the suffix of any.
listFilesFoldersFirst(entries) ==
    IF \E k \in 1..Len(entries) : entries[k].isDir
    THEN [err |-> "ErrMigrationFolder", files |-> <<>>]
    ELSE IF \E k \in 1..Len(entries) : ~HasSuffix(entries[k].name, SqlExt)
         THEN [err |-> "ErrInvalidMigrationFile", files |-> <<>>]
    ELSE [err |-> "nil", files |-> entries]

\* listFiles: the entries in enumeration order; the first subdirectory or the
\* first entry without the .sql suffix ends the listing with its error.
RECURSIVE listFiles(_)
listFiles(entries) ==
    IF entries = <<>> THEN [err |-> "nil", files |-> <<>>]
    ELSE IF entries[1].isDir THEN [err |-> "ErrMigrationFolder", files |-> <<>>]
    ELSE IF ~HasSuffix(entries[1].name, SqlExt)
         THEN [err |-> "ErrInvalidMigrationFile", files |-> <<>>]
    ELSE LET rest == listFiles(Tail(entries))
         IN  IF rest.err # "nil" THEN rest
             ELSE [err |-> "nil", files |-> <<entries[1]>> \o rest.files]

\* The body of the loop of readMigrations for one file; readFails says that
\* fs.ReadFile returns an error for it.
parseFile(file, readFails) ==
    LET idx  == Index(file.name, <<"_">>)
        sc   == Sscanf(Take(file.name, idx))
        data == TrimSpace(file.data)
    IN  IF idx = -1 THEN [err |-> "ErrInvalidMigrationFile"]
        ELSE IF ~sc.ok THEN [err |-> "ErrInvalidMigrationFile"]
        ELSE IF sc.val = 0 THEN [err |-> "ErrInvalidMigrationFile"]
        ELSE IF readFails THEN [err |-> "ErrFs"]
        ELSE [err |-> "nil",
              m   |-> NewMigration(sc.val, file.name, Split(data, Marker),
                                   computeHash(data))]

\* The loop of readMigrations: the files in order, ended by the first error.
\* failAt = k > 0 makes fs.ReadFile fail on the k-th file.
RECURSIVE parseFiles(_, _, _)
parseFiles(files, k, failAt) ==
    IF k > Len(files) THEN [err |-> "nil", items |-> <<>>]
    ELSE LET one == parseFile(files[k], failAt = k)
         IN  IF one.err # "nil" THEN [err |-> one.err, items |-> <<>>]
             ELSE LET rest == parseFiles(files, k + 1, failAt)
                  IN  IF rest.err # "nil" THEN rest
                      ELSE [err |-> "nil", items |-> <<one.m>> \o rest.items]

\* sort.Slice by Version, as an insertion sort. The order sort.Slice leaves
\* between equal versions is unspecified, and no result depends on it: equal
\* versions are rejected by the check that follows.
RECURSIVE insertByVersion(_, _)
insertByVersion(m, sorted) ==
    IF sorted = <<>> THEN <<m>>
    ELSE IF m.Version < sorted[1].Version THEN <<m>> \o sorted
    ELSE <<sorted[1]>> \o insertByVersion(m, Tail(sorted))

RECURSIVE sortByVersion(_)
sortByVersion(items) ==
    IF items = <<>> THEN <<>>
    ELSE insertByVersion(items[1], sortByVersion(Tail(items)))

\* The check without its test of the first version.
sequentialFromAny(items) ==
    \A i \in 2..Len(items) : items[i].Version - items[i - 1].Version = 1

\* The check with "ascending" in the place of "the previous plus one".
sequentialWithGaps(items) ==
    \/ Len(items) = 0
    \/ /\ items[1].Version = 1
       /\ \A i \in 2..Len(items) : items[i].Version - items[i - 1].Version >= 1

\* The check at the end of readMigrations: the first version is 1 and every
\* next one is the previous plus one.
sequential(items) ==
    \/ Len(items) = 0
    \/ /\ items[1].Version = 1
       /\ \A i \in 2..Len(items) : items[i].Version - items[i - 1].Version = 1

\* readMigrations on the entries in the order fs.ReadDir gives them.
\* failAt = -1: fs.ReadDir fails; failAt = k > 0: fs.ReadFile fails on the
\* k-th file; failAt = 0: the file system answers every call.
readMigrations(entries, failAt) ==
    LET listed == listFiles(entries)
        parsed == parseFiles(listed.files, 1, failAt)
        items  == sortByVersion(parsed.items)
    IN  IF failAt = -1 THEN [err |-> "ErrFs", items |-> <<>>]
        ELSE IF listed.err # "nil" THEN [err |-> listed.err, items |-> <<>>]
        ELSE IF parsed.err # "nil" THEN [err |-> parsed.err, items |-> <<>>]
        ELSE IF ~sequential(items)
             THEN [err |-> "ErrInvalidMigrationFile", items |-> <<>>]
        ELSE [err |-> "nil", items |-> items]

\* The check without its comparison of the hashes.
checkAppliedVersionsOnly(localMigrations, appliedMigrations) ==
    IF Len(localMigrations) < Len(appliedMigrations)
    THEN "ErrInvalidMigrationFile"
    ELSE IF \E i \in 1..Len(appliedMigrations) :
               appliedMigrations[i].Version # localMigrations[i].Version
         THEN "ErrInvalidMigrationFile"
    ELSE "nil"

\* The consistency check of Migrate on the two lists: "nil" when the applied
\* list is a prefix of the local one by version and hash.
checkApplied(localMigrations, appliedMigrations) ==
    IF Len(localMigrations) < Len(appliedMigrations)
    THEN "ErrInvalidMigrationFile"
    ELSE IF \E i \in 1..Len(appliedMigrations) :
               \/ appliedMigrations[i].Version # localMigrations[i].Version
               \/ appliedMigrations[i].Hash # localMigrations[i].Hash
         THEN "ErrInvalidMigrationFile"
    ELSE "nil"

\* toApply without the slice: every local migration.
toApplyAll(localMigrations, appliedMigrations) == localMigrations

\* toApply sliced one entry too far.
toApplySkipsOne(localMigrations, appliedMigrations) ==
    Drop(localMigrations, Len(appliedMigrations) + 1)

\* toApply := localMigrations[len(appliedMigrations):]
toApplyOf(localMigrations, appliedMigrations) ==
    Drop(localMigrations, Len(appliedMigrations))

\* validate without the query validator: the statements must not be empty.
validate(migration) ==
    IF Len(migration.Statements) = 0 THEN "ErrInvalidMigrationFile" ELSE "nil"

\* ------------------------------------------------------------------- state

\* The processes that run Migrate.
Procs == {"p1"}

\* The errors the sqlite driver hands up from database/sql.
DriverErrors == {"ErrDriverA", "ErrDriverB"}

\* What database/sql returns on a context that is cancelled: ctx.Err(), and
\* from Commit also ErrTxDone when the transaction is rolled back already.
CtxErrors == {"ErrCanceled", "ErrTxDone"}

VARIABLES
    folder,       \* the migrations folder: a set of entries [name, isDir, data]
    tableExists,  \* the tracking table has been created
    rows,         \* the committed rows of the tracking table
    schema,       \* the committed statements, in commit order: [version, n, stmt]
    tx,           \* tx[p]: the open transaction of p: [open, rows, stmts]
    run,          \* run[p]: the Migrate call of p: its position and locals
    lastOK,       \* the last Migrate returned nil and nothing changed since
    lastPartial,  \* the last Migrate failed inside an ApplyMigrations without
                  \* the transaction of the batch; the folder is as it was
    appliedData   \* history: [version, fname, data], the content each file
                  \* had when its row was committed

vars ==
    <<folder, tableExists, rows, schema, tx, run, lastOK, lastPartial,
      appliedData>>

NoTx == [open |-> FALSE, rows |-> <<>>, stmts |-> <<>>]

Idle ==
    [pc |-> "idle", opts |-> {},
     m |-> New([opts |-> {}, table |-> "", root |-> ""], TRUE),
     rootExists |-> TRUE, localMigrations |-> <<>>,
     appliedMigrations |-> <<>>, toApply |-> <<>>, i |-> 0, j |-> 0,
     ownTx |-> FALSE, err |-> "none", from |-> "none", calls |-> <<>>,
     afterOK |-> FALSE, afterPartial |-> FALSE,
     cancelled |-> FALSE, callsBefore |-> 0,
     start |-> [tableExists |-> FALSE, rows |-> {}, schema |-> <<>>]]

\* The file of version v that the runs of Spec work on, and its contents.
VersionName(v) == <<Digits[v + 1], "_", "a">> \o SqlExt

TwoStatements == <<"a">> \o Marker \o <<"b">>

Contents(v) ==
    IF v = 1 THEN {<<>>, <<"a">>, <<"a", " ">>, TwoStatements}
    ELSE IF v = 2 THEN {<<"a">>, <<"b">>}
    ELSE {<<"a">>}

File(name, data) == [name |-> name, isDir |-> FALSE, data |-> data]

Dir(name) == [name |-> name, isDir |-> TRUE, data |-> <<>>]

\* The orders in which fs.ReadDir may enumerate the entries of the folder.
Enumerations(entries) ==
    {order \in [1..Cardinality(entries) -> entries] :
        \A a, b \in 1..Cardinality(entries) : a # b => order[a] # order[b]}

\* SELECT ... ORDER BY version on the committed rows, as Migrations.
RECURSIVE selectRows(_)
selectRows(rs) ==
    IF rs = {} THEN <<>>
    ELSE LET r == CHOOSE x \in rs : \A y \in rs : x.version <= y.version
         IN  <<[Version |-> r.version, Fname |-> r.fname, AppliedAt |-> "set",
                Statements |-> <<>>, Hash |-> r.hash]>>
             \o selectRows(rs \ {r})

\* The row INSERT writes for a migration.
rowOf(m) ==
    [version |-> m.Version, fname |-> m.Fname, hash |-> m.Hash,
     applied_at |-> "set"]

SeqToSet(s) == {s[k] : k \in 1..Len(s)}

\* A table without a primary key: no insert is refused.
primaryKeyMissing(p, version) == TRUE

\* version INTEGER NOT NULL PRIMARY KEY: the insert of a version that the
\* table, as the transaction sees it, already holds is refused.
primaryKeyFree(p, version) ==
    \A r \in rows \cup SeqToSet(tx[p].rows) : r.version # version

\* A statement that SQLite compiles to nothing (the empty one) writes nothing
\* and takes no lock; any other statement of a migration is a write.
writes(stmt) == stmt # <<>>

\* The transaction of q has written: it holds the write lock of the SQLite
\* database until it is committed or rolled back.
holdsLock(q) ==
    /\ tx[q].open
    /\ \/ tx[q].rows # <<>>
       \/ \E k \in 1..Len(tx[q].stmts) : writes(tx[q].stmts[k].stmt)

\* No other connection holds the write lock: a write of p can go on. When
\* one does, the write waits for it or fails (SQLITE_BUSY, one of the errors
\* of the driver).
lockFree(p) == \A q \in DOMAIN tx \ {p} : ~holdsLock(q)

Init ==
    /\ folder = {}
    /\ tableExists = FALSE
    /\ rows = {}
    /\ schema = <<>>
    /\ tx = [p \in Procs |-> NoTx]
    /\ run = [p \in Procs |-> Idle]
    /\ lastOK = FALSE
    /\ lastPartial = FALSE
    /\ appliedData = {}

\* ----------------------------------------------------------------- actions

\* Migrate returns e: the deferred rollbacks have run, the call is over; from
\* is the step that returned.
return(p, r, e) ==
    /\ run' = [run EXCEPT ![p] = [r EXCEPT !.pc = "done", !.err = e,
                                            !.from = r.pc]]
    /\ lastOK' = (e = "nil")
    /\ lastPartial' = (/\ e # "nil"
                       /\ r.pc \in {"one", "exec", "insert", "commit"}
                       /\ ~r.m.inTransaction)

goto(p, r, pc) ==
    /\ run' = [run EXCEPT ![p] = [r EXCEPT !.pc = pc]]
    /\ UNCHANGED <<lastOK, lastPartial>>

called(r, call) == [r EXCEPT !.calls = Append(@, call)]

\* New(driver, opts...) and, when New did not panic, the entry of Migrate;
\* the root folder exists when it holds an entry and may be missing when it
\* holds none; start is the database as the call finds it.
Migrate(p) ==
    /\ run[p].pc = "idle"
    /\ \E cfg \in Configs :
          \E exists \in (IF folder = {} THEN BOOLEAN ELSE {TRUE}) :
             LET m == New(cfg, exists)
             IN  run' = [run EXCEPT ![p] =
                    IF m.err # "nil"
                    THEN [Idle EXCEPT !.pc = "panic", !.opts = cfg.opts,
                                      !.err = m.err]
                    ELSE [Idle EXCEPT !.pc = "create", !.opts = cfg.opts,
                                      !.m = m,
                                      !.rootExists = isDir(m.root, exists),
                                      !.afterOK = lastOK,
                                      !.afterPartial = lastPartial,
                                      !.start = [tableExists |-> tableExists,
                                                 rows |-> rows,
                                                 schema |-> schema]]]
    /\ UNCHANGED <<folder, tableExists, rows, schema, appliedData, tx, lastOK,
                   lastPartial>>

\* Migrate going on after an error of CreateMigrationsTable.
CreateMigrationsTableErrIgnored(p) ==
    /\ run[p].pc = "create"
    /\ \/ /\ tableExists' = TRUE
          /\ goto(p, called(run[p], [op |-> "CreateMigrationsTable",
                                     ret |-> "nil"]), "read")
       \/ \E e \in DriverErrors :
             /\ goto(p, called(run[p], [op |-> "CreateMigrationsTable",
                                        ret |-> e]), "read")
             /\ UNCHANGED tableExists
    /\ UNCHANGED <<folder, rows, schema, appliedData, tx>>

\* CREATE TABLE without IF NOT EXISTS semantics: the table is made anew.
CreateMigrationsTableAnew(p) ==
    /\ run[p].pc = "create"
    /\ \/ /\ tableExists' = TRUE
          /\ rows' = {}
          /\ goto(p, called(run[p], [op |-> "CreateMigrationsTable",
                                     ret |-> "nil"]), "read")
       \/ \E e \in DriverErrors :
             /\ return(p, called(run[p], [op |-> "CreateMigrationsTable",
                                          ret |-> e]), e)
             /\ UNCHANGED <<tableExists, rows>>
    /\ UNCHANGED <<folder, schema, appliedData, tx>>

\* m.driver.CreateMigrationsTable: CREATE TABLE IF NOT EXISTS, or an error.
CreateMigrationsTable(p) ==
    /\ run[p].pc = "create"
    /\ \/ /\ tableExists' = TRUE
          /\ goto(p, called(run[p], [op |-> "CreateMigrationsTable",
                                     ret |-> "nil"]), "read")
       \/ \E e \in DriverErrors :
             /\ return(p, called(run[p], [op |-> "CreateMigrationsTable",
                                          ret |-> e]), e)
             /\ UNCHANGED tableExists
    /\ UNCHANGED <<folder, rows, schema, appliedData, tx>>

\* Where the reading of the folder may fail: fs.ReadDir (-1), which does fail
\* when the root is missing, or fs.ReadFile of the k-th file, or nowhere (0).
readFailures(p) ==
    IF run[p].rootExists THEN -1..Cardinality(folder) ELSE {-1}

\* m.readMigrations on the folder, in any order of enumeration.
ReadMigrations(p) ==
    /\ run[p].pc = "read"
    /\ \E order \in Enumerations(folder), failAt \in readFailures(p) :
          LET got == readMigrations(order, failAt)
              r   == called(run[p], [op |-> "readMigrations", ret |-> got.err])
          IN  IF got.err # "nil" THEN return(p, r, got.err)
              ELSE goto(p, [r EXCEPT !.localMigrations = got.items], "select")
    /\ UNCHANGED <<folder, tableExists, rows, schema, appliedData, tx>>

\* What a call of database/sql with the context of the run may fail with:
\* ctx.Err() when the context is cancelled, else any error of the driver.
failures(p) == IF run[p].cancelled THEN {"ErrCanceled"} ELSE DriverErrors

\* SelectMigrations that returns no row of the table.
SelectMigrationsForgetsRows(p) ==
    /\ run[p].pc = "select"
    /\ \/ /\ tableExists
          /\ goto(p, called(run[p], [op |-> "SelectMigrations", ret |-> "nil"]),
                  "check")
       \/ \E e \in DriverErrors :
             return(p, called(run[p], [op |-> "SelectMigrations", ret |-> e]), e)
    /\ UNCHANGED <<folder, tableExists, rows, schema, appliedData, tx>>

\* Migrate calling SelectMigrations again after an error.
SelectMigrationsRetried(p) ==
    /\ run[p].pc = "select"
    /\ \/ /\ ~run[p].cancelled
          /\ tableExists
          /\ goto(p, [called(run[p], [op |-> "SelectMigrations", ret |-> "nil"])
                        EXCEPT !.appliedMigrations = selectRows(rows)], "check")
       \/ \E e \in failures(p) :
             goto(p, called(run[p], [op |-> "SelectMigrations", ret |-> e]),
                  "select")
    /\ UNCHANGED <<folder, tableExists, rows, schema, appliedData, tx>>

\* m.driver.SelectMigrations: the committed rows by version, or an error.
SelectMigrations(p) ==
    /\ run[p].pc = "select"
    /\ \/ /\ ~run[p].cancelled
          /\ tableExists
          /\ goto(p, [called(run[p], [op |-> "SelectMigrations", ret |-> "nil"])
                        EXCEPT !.appliedMigrations = selectRows(rows)], "check")
       \/ \E e \in failures(p) :
             return(p, called(run[p], [op |-> "SelectMigrations", ret |-> e]), e)
    /\ UNCHANGED <<folder, tableExists, rows, schema, appliedData, tx>>

\* The prefix check of Migrate and the computation of toApply.
Reconcile(p) ==
    /\ run[p].pc = "check"
    /\ LET e     == checkApplied(run[p].localMigrations, run[p].appliedMigrations)
           delta == toApplyOf(run[p].localMigrations, run[p].appliedMigrations)
       IN  IF e # "nil" THEN return(p, run[p], e)
           ELSE IF Len(delta) = 0 THEN return(p, run[p], "nil")
           ELSE goto(p, [run[p] EXCEPT !.toApply = delta], "validate")
    /\ UNCHANGED <<folder, tableExists, rows, schema, appliedData, tx>>

\* The statements of the migrations, in order.
RECURSIVE flatten(_)
flatten(ms) ==
    IF ms = <<>> THEN <<>> ELSE ms[1].Statements \o flatten(Tail(ms))

\* driver.Dialect of the sqlite driver.
Dialect == "sqlite"

\* The loop over toApply handing the validator the first statement of each
\* migration only.
validateAllOncePerMigration(toApply, qvalidator, rejectAt) ==
    LET bad     == {k \in 1..Len(toApply) : validate(toApply[k]) # "nil"}
        first   == IF bad = {} THEN 0
                   ELSE CHOOSE k \in bad : \A l \in bad : k <= l
        reached == IF first = 0 THEN toApply ELSE Take(toApply, first - 1)
        queries == IF qvalidator
                   THEN [k \in 1..Len(reached) |-> reached[k].Statements[1]]
                   ELSE <<>>
        query(n, ret) == [op |-> "ValidateQuery", dialect |-> Dialect,
                          query |-> queries[n], ret |-> ret]
    IN  IF rejectAt \in 1..Len(queries)
        THEN [err   |-> "ErrInvalidQuery",
              calls |-> [n \in 1..rejectAt |->
                            query(n, IF n = rejectAt THEN "ErrLint" ELSE "nil")]]
        ELSE [err   |-> IF first = 0 THEN "nil" ELSE "ErrInvalidMigrationFile",
              calls |-> [n \in 1..Len(queries) |-> query(n, "nil")]]

\* The loop of Migrate over toApply that calls validate: the first migration
\* without statements ends it, and so does the first statement the query
\* validator (when one is configured) rejects; rejectAt = n > 0 makes the
\* validator reject the n-th statement handed to it.
validateAll(toApply, qvalidator, rejectAt) ==
    LET bad     == {k \in 1..Len(toApply) : validate(toApply[k]) # "nil"}
        first   == IF bad = {} THEN 0
                   ELSE CHOOSE k \in bad : \A l \in bad : k <= l
        reached == IF first = 0 THEN toApply ELSE Take(toApply, first - 1)
        queries == IF qvalidator THEN flatten(reached) ELSE <<>>
        query(n, ret) == [op |-> "ValidateQuery", dialect |-> Dialect,
                          query |-> queries[n], ret |-> ret]
    IN  IF rejectAt \in 1..Len(queries)
        THEN [err   |-> "ErrInvalidQuery",
              calls |-> [n \in 1..rejectAt |->
                            query(n, IF n = rejectAt THEN "ErrLint" ELSE "nil")]]
        ELSE [err   |-> IF first = 0 THEN "nil" ELSE "ErrInvalidMigrationFile",
              calls |-> [n \in 1..Len(queries) |-> query(n, "nil")]]

\* The statements the validator may reject: none (0) or any one of them; on
\* a cancelled context its command does not start and the first statement
\* handed to it is rejected.
rejections(p) ==
    IF run[p].cancelled THEN {1} ELSE 0..Len(flatten(run[p].toApply))

\* Migrate handing the batch to the store whatever validation said.
ValidateErrIgnored(p) ==
    /\ run[p].pc = "validate"
    /\ \E rejectAt \in 0..Len(flatten(run[p].toApply)) :
          LET got == validateAll(run[p].toApply, run[p].m.qvalidator, rejectAt)
          IN  goto(p, [run[p] EXCEPT !.calls = @ \o got.calls], "apply")
    /\ UNCHANGED <<folder, tableExists, rows, schema, appliedData, tx>>

\* Migrate's loop over toApply, all of it before ApplyMigrations.
Validate(p) ==
    /\ run[p].pc = "validate"
    /\ \E rejectAt \in rejections(p) :
          LET got == validateAll(run[p].toApply, run[p].m.qvalidator, rejectAt)
              r   == [run[p] EXCEPT !.calls = @ \o got.calls]
          IN  IF got.err # "nil" THEN return(p, r, got.err)
              ELSE goto(p, r, "apply")
    /\ UNCHANGED <<folder, tableExists, rows, schema, appliedData, tx>>

\* ------------------------------------------------------- the sqlite driver

\* tx.Rollback: what the transaction wrote is dropped.
rollback(p) == tx' = [tx EXCEPT ![p] = NoTx]

\* A commit that leaves in the table the rows of the transaction only.
commitReplacesRows(p) ==
    /\ rows' = SeqToSet(tx[p].rows)
    /\ schema' = schema \o tx[p].stmts
    /\ tx' = [tx EXCEPT ![p] = NoTx]
    /\ appliedData' = appliedData \cup
          {[version |-> r.version, fname |-> r.fname, data |-> e.data] :
              <<r, e>> \in {x \in SeqToSet(tx[p].rows) \X folder :
                              x[2].name = x[1].fname}}

\* tx.Commit: what the transaction wrote becomes part of the database.
commit(p) ==
    /\ rows' = rows \cup SeqToSet(tx[p].rows)
    /\ schema' = schema \o tx[p].stmts
    /\ tx' = [tx EXCEPT ![p] = NoTx]
    /\ appliedData' = appliedData \cup
          {[version |-> r.version, fname |-> r.fname, data |-> e.data] :
              <<r, e>> \in {x \in SeqToSet(tx[p].rows) \X folder :
                              x[2].name = x[1].fname}}

\* ApplyMigrations that never begins the transaction of the batch.
ApplyMigrationsNoBatchTx(p) ==
    /\ run[p].pc = "apply"
    /\ goto(p, [called(run[p], [op |-> "ApplyMigrations",
                                inTx |-> run[p].m.inTransaction,
                                migrations |-> run[p].toApply])
                  EXCEPT !.i = 1], "one")
    /\ UNCHANGED <<folder, tableExists, rows, schema, appliedData, tx>>

\* m.driver.ApplyMigrations(ctx, table, m.inTransaction, toApply): with inTx
\* the driver begins the transaction of the batch.
ApplyMigrations(p) ==
    /\ run[p].pc = "apply"
    /\ LET r == called(run[p], [op |-> "ApplyMigrations",
                                inTx |-> run[p].m.inTransaction,
                                migrations |-> run[p].toApply])
       IN  IF run[p].m.inTransaction
           THEN \/ /\ ~run[p].cancelled
                   /\ tx' = [tx EXCEPT ![p] = [NoTx EXCEPT !.open = TRUE]]
                   /\ goto(p, [r EXCEPT !.i = 1], "one")
                \/ \E e \in failures(p) :
                      return(p, r, e) /\ UNCHANGED tx
           ELSE goto(p, [r EXCEPT !.i = 1], "one") /\ UNCHANGED tx
    /\ UNCHANGED <<folder, tableExists, rows, schema, appliedData>>

\* applyOne, createTxIfNotExists: the transaction of the batch when there is
\* one, else a transaction of its own for this migration.
applyOneBegin(p) ==
    /\ run[p].pc = "one"
    /\ LET m    == run[p].toApply[run[p].i]
           next == IF Len(m.Statements) = 0 THEN "insert" ELSE "exec"
       IN  IF tx[p].open
           THEN /\ goto(p, [run[p] EXCEPT !.j = 1, !.ownTx = FALSE], next)
                /\ UNCHANGED tx
           ELSE \/ /\ ~run[p].cancelled
                   /\ tx' = [tx EXCEPT ![p] = [NoTx EXCEPT !.open = TRUE]]
                   /\ goto(p, [run[p] EXCEPT !.j = 1, !.ownTx = TRUE], next)
                \/ \E e \in failures(p) :
                      return(p, run[p], e) /\ UNCHANGED tx
    /\ UNCHANGED <<folder, tableExists, rows, schema, appliedData>>

\* applyOne running the statement on d.db, outside the transaction: what it
\* does is committed at once.
applyOneExecOutsideTx(p) ==
    /\ run[p].pc = "exec"
    /\ LET m == run[p].toApply[run[p].i]
       IN  \/ /\ schema' = Append(schema, [version |-> m.Version, n |-> run[p].j,
                                           stmt |-> m.Statements[run[p].j]])
              /\ IF run[p].j < Len(m.Statements)
                 THEN goto(p, [run[p] EXCEPT !.j = @ + 1], "exec")
                 ELSE goto(p, run[p], "insert")
              /\ UNCHANGED tx
           \/ \E e \in DriverErrors :
                 return(p, run[p], e) /\ rollback(p) /\ UNCHANGED schema
    /\ UNCHANGED <<folder, tableExists, rows, appliedData>>

\* applyOne: trans.ExecContext(ctx, query) for the next statement; an error
\* returns through the deferred rollbacks.
applyOneExec(p) ==
    /\ run[p].pc = "exec"
    /\ LET m == run[p].toApply[run[p].i]
       IN  \/ /\ ~run[p].cancelled
              /\ writes(m.Statements[run[p].j]) => lockFree(p)
              /\ tx' = [tx EXCEPT ![p].stmts =
                           Append(@, [version |-> m.Version, n |-> run[p].j,
                                      stmt |-> m.Statements[run[p].j]])]
              /\ IF run[p].j < Len(m.Statements)
                 THEN goto(p, [run[p] EXCEPT !.j = @ + 1], "exec")
                 ELSE goto(p, run[p], "insert")
           \/ \E e \in failures(p) : return(p, run[p], e) /\ rollback(p)
    /\ UNCHANGED <<folder, tableExists, rows, schema, appliedData>>

\* applyMigrations going on with the next migration after a failed INSERT.
applyOneInsertErrSkipped(p) ==
    /\ run[p].pc = "insert"
    /\ LET m == run[p].toApply[run[p].i]
       IN  \/ /\ primaryKeyFree(p, m.Version)
              /\ tx' = [tx EXCEPT ![p].rows = Append(@, rowOf(m))]
              /\ goto(p, run[p], "commit")
           \/ /\ ~primaryKeyFree(p, m.Version)
              /\ return(p, run[p], "ErrConstraint")
              /\ rollback(p)
           \/ \E e \in DriverErrors :
                 /\ rollback(p)
                 /\ IF run[p].i < Len(run[p].toApply)
                    THEN goto(p, [run[p] EXCEPT !.i = @ + 1], "one")
                    ELSE return(p, run[p], e)
    /\ UNCHANGED <<folder, tableExists, rows, schema, appliedData>>

\* applyOne: the INSERT of the tracking row.
applyOneInsert(p) ==
    /\ run[p].pc = "insert"
    /\ LET m == run[p].toApply[run[p].i]
       IN  \/ /\ ~run[p].cancelled
              /\ lockFree(p)
              /\ primaryKeyFree(p, m.Version)
              /\ tx' = [tx EXCEPT ![p].rows = Append(@, rowOf(m))]
              /\ goto(p, run[p], "commit")
           \/ /\ ~run[p].cancelled
              /\ lockFree(p)
              /\ ~primaryKeyFree(p, m.Version)
              /\ return(p, run[p], "ErrConstraint")
              /\ rollback(p)
           \/ \E e \in failures(p) : return(p, run[p], e) /\ rollback(p)
    /\ UNCHANGED <<folder, tableExists, rows, schema, appliedData>>

\* What tx.Commit may fail with.
commitFailures(p) == IF run[p].cancelled THEN CtxErrors ELSE DriverErrors

\* applyOne: commit(), which commits the migration's own transaction and does
\* nothing in the transaction of the batch; then the next migration, or the
\* end of applyMigrations.
applyOneCommit(p) ==
    /\ run[p].pc = "commit"
    /\ LET after == IF run[p].i < Len(run[p].toApply)
                    THEN goto(p, [run[p] EXCEPT !.i = @ + 1], "one")
                    ELSE IF run[p].ownTx THEN return(p, run[p], "nil")
                    ELSE goto(p, run[p], "txcommit")
       IN  IF run[p].ownTx
           THEN \/ ~run[p].cancelled /\ commit(p) /\ after
                \/ \E e \in commitFailures(p) :
                      /\ return(p, run[p], e)
                      /\ rollback(p)
                      /\ UNCHANGED <<rows, schema, appliedData>>
           ELSE after /\ UNCHANGED <<rows, schema, appliedData, tx>>
    /\ UNCHANGED <<folder, tableExists>>

\* ApplyMigrations with inTx: tx.Commit() of the batch.
ApplyCommit(p) ==
    /\ run[p].pc = "txcommit"
    /\ \/ ~run[p].cancelled /\ commit(p) /\ return(p, run[p], "nil")
       \/ \E e \in commitFailures(p) :
             /\ return(p, run[p], e)
             /\ rollback(p)
             /\ UNCHANGED <<rows, schema, appliedData>>
    /\ UNCHANGED <<folder, tableExists>>

\* The context of the call is cancelled while Migrate runs (or before its
\* first step); callsBefore is the number of calls made until then.
Cancel(p) ==
    /\ run[p].pc \notin {"idle", "done"}
    /\ ~run[p].cancelled
    /\ run' = [run EXCEPT ![p].cancelled = TRUE,
                          ![p].callsBefore = Len(run[p].calls)]
    /\ UNCHANGED <<folder, tableExists, rows, schema, appliedData, tx, lastOK,
                   lastPartial>>

\* The caller is done with the result of Migrate.
Exit(p) ==
    /\ run[p].pc \in {"done", "panic"}
    /\ run' = [run EXCEPT ![p] = Idle]
    /\ UNCHANGED <<folder, tableExists, rows, schema, appliedData, tx, lastOK,
                   lastPartial>>

\* ------------------------------------------------------------- the folder

AllIdle == \A p \in Procs : run[p].pc = "idle"

\* A migration file is written: a new one, or new content for an old one.
WriteFile ==
    /\ AllIdle
    /\ \E v \in 1..MaxFiles : \E data \in Contents(v) :
          LET others == {e \in folder : e.name # VersionName(v)}
          IN  /\ File(VersionName(v), data) \notin folder
              /\ folder' = others \cup {File(VersionName(v), data)}
    /\ lastOK' = FALSE
    /\ lastPartial' = FALSE
    /\ UNCHANGED <<tableExists, rows, schema, appliedData, tx, run>>

\* A migration file is deleted.
RemoveFile ==
    /\ AllIdle
    /\ \E e \in folder : folder' = folder \ {e}
    /\ lastOK' = FALSE
    /\ lastPartial' = FALSE
    /\ UNCHANGED <<tableExists, rows, schema, appliedData, tx, run>>

\* ------------------------------------------------------------------- specs

Step(p) ==
    \/ Migrate(p)
    \/ CreateMigrationsTable(p)
    \/ ReadMigrations(p)
    \/ SelectMigrations(p)
    \/ Reconcile(p)
    \/ Validate(p)
    \/ ApplyMigrations(p)
    \/ applyOneBegin(p)
    \/ applyOneExec(p)
    \/ applyOneInsert(p)
    \/ applyOneCommit(p)
    \/ ApplyCommit(p)
    \/ Exit(p)

Next ==
    \/ \E p \in Procs : Step(p)
    \/ \E p \in Procs : Cancel(p)
    \/ WriteFile
    \/ RemoveFile

\* Runs of Migrate on a folder that changes between them, from an empty
\* folder and an empty database.
Spec == Init /\ [][Next]_vars

\* Entries of every kind listFiles and readMigrations tell apart.
OddEntries ==
    { File(VersionName(1), <<"a">>),
      File(<<"1", "_", "b">> \o SqlExt, <<"b">>),
      File(VersionName(2), <<"a", " ">>),
      File(VersionName(3), TwoStatements),
      File(<<"0", "_", "a">> \o SqlExt, <<"a">>),
      File(<<"a">> \o SqlExt, <<"a">>),
      File(<<"_", "a">> \o SqlExt, <<"a">>),
      File(<<"x", "_", "a">> \o SqlExt, <<"a">>),
      File(<<"1", "a", "b", "c", "_", "x">> \o SqlExt, <<"a">>),
      File(<<"-", "1", "_", "a">> \o SqlExt, <<"a">>),
      File(<<"0", "2", "_", "a">> \o SqlExt, <<"b">>),
      File(<<"4", "_", "a", ".", "t", "x", "t">>, <<"a">>),
      Dir(<<"d">>) }

\* The folders of at most MaxFiles entries, no two of one name.
Folders(entries) ==
    {f \in SUBSET entries :
        /\ Cardinality(f) <= MaxFiles
        /\ \A a, b \in f : a.name = b.name => a = b}

NextRun == \E p \in Procs : Step(p)

\* Runs of Migrate on any folder of odd entries, from an empty database.
InitRead ==
    /\ folder \in Folders(OddEntries)
    /\ tableExists = FALSE
    /\ rows = {}
    /\ schema = <<>>
    /\ tx = [p \in Procs |-> NoTx]
    /\ run = [p \in Procs |-> Idle]
    /\ lastOK = FALSE
    /\ lastPartial = FALSE
    /\ appliedData = {}

SpecRead == InitRead /\ [][NextRun]_vars

\* The migration files of Spec.
VersionFiles ==
    UNION {{File(VersionName(v), data) : data \in Contents(v)} : v \in 1..MaxFiles}

\* Tracking tables whose rows this program need not have written: any rows
\* with distinct versions.
ForeignTables ==
    {t \in SUBSET {[version |-> v, fname |-> VersionName(v),
                    hash |-> computeHash(TrimSpace(data)), applied_at |-> "set"] :
                      v \in 1..MaxFiles, data \in {<<"a">>, <<"b">>}} :
        \A a, b \in t : a.version = b.version => a = b}

\* Runs of Migrate on a store that already holds any tracking table.
InitStore ==
    /\ folder \in Folders(VersionFiles)
    /\ tableExists = TRUE
    /\ rows \in ForeignTables
    /\ schema = <<>>
    /\ tx = [p \in Procs |-> NoTx]
    /\ run = [p \in Procs |-> Idle]
    /\ lastOK = FALSE
    /\ lastPartial = FALSE
    /\ appliedData = {}

SpecStore == InitStore /\ [][NextRun]_vars

\* Two connections to the one SQLite database, each running Migrate once.
Racers == {"p1", "p2"}

\* The folders with the files of versions 1..k, k from 1 to MaxRaceFiles.
SequentialFolders ==
    {f \in SUBSET VersionFiles :
        /\ Cardinality(f) \in 1..MaxRaceFiles
        /\ \A a, b \in f : a.name = b.name => a = b
        /\ {e.name : e \in f} = {VersionName(v) : v \in 1..Cardinality(f)}}

\* Migrate of a racer: the default table and folder, no validator, with or
\* without the transaction of the batch.
RaceMigrate(p) ==
    /\ Migrate(p)
    /\ run'[p].pc = "create"
    /\ run'[p].rootExists
    /\ run'[p].opts \subseteq {"WithInTransaction"}

RaceStep(p) ==
    \/ RaceMigrate(p)
    \/ CreateMigrationsTable(p)
    \/ ReadMigrations(p)
    \/ SelectMigrations(p)
    \/ Reconcile(p)
    \/ Validate(p)
    \/ ApplyMigrations(p)
    \/ applyOneBegin(p)
    \/ applyOneExec(p)
    \/ applyOneInsert(p)
    \/ applyOneCommit(p)
    \/ ApplyCommit(p)

NextRace == \E p \in Racers : RaceStep(p)

InitRace ==
    /\ folder \in SequentialFolders
    /\ tableExists = FALSE
    /\ rows = {}
    /\ schema = <<>>
    /\ tx = [p \in Racers |-> NoTx]
    /\ run = [p \in Racers |-> Idle]
    /\ lastOK = FALSE
    /\ lastPartial = FALSE
    /\ appliedData = {}

\* Two runs of Migrate on the same files and the same database, their steps
\* interleaved in every way.
SpecRace == InitRace /\ [][NextRace]_vars

\* What the contents of a file are put together from.
Pieces == {<<"a">>, <<" ">>, <<"-">>, Marker}

\* The contents of at most n pieces.
RECURSIVE Concats(_)
Concats(n) ==
    IF n = 0 THEN {<<>>}
    ELSE Concats(n - 1) \cup {c \o t : c \in Concats(n - 1), t \in Pieces}

\* Runs of Migrate on a folder that holds the file of version 1, with any
\* content of at most MaxPieces pieces, from an empty database.
InitSplit ==
    /\ folder \in {{File(VersionName(1), data)} : data \in Concats(MaxPieces)}
    /\ tableExists = FALSE
    /\ rows = {}
    /\ schema = <<>>
    /\ tx = [p \in Procs |-> NoTx]
    /\ run = [p \in Procs |-> Idle]
    /\ lastOK = FALSE
    /\ lastPartial = FALSE
    /\ appliedData = {}

SpecSplit == InitSplit /\ [][NextRun]_vars

\* ------------------------------------------------------------------ claims

Done(p) == run[p].pc = "done"

Called(p, op) == \E k \in 1..Len(run[p].calls) : run[p].calls[k].op = op

\* Migrate got the applied list from the store and has made its prefix check.
PastCheck(p) ==
    /\ run[p].pc \notin {"idle", "create", "read", "select", "check"}
    /\ \E k \in 1..Len(run[p].calls) :
          /\ run[p].calls[k].op = "SelectMigrations"
          /\ run[p].calls[k].ret = "nil"

RecordedVersions == {r.version : r \in rows}

\* C1: in every state the recorded versions are exactly 1..k, one row each;
\* no statement of a migration is committed twice; and the versions whose
\* statements are committed are the recorded ones.
C1_AppliedOnceInOrder ==
    /\ RecordedVersions = 1..Cardinality(rows)
    /\ \A a, b \in 1..Len(schema) :
          (schema[a].version = schema[b].version /\ schema[a].n = schema[b].n)
              => a = b
    /\ {schema[k].version : k \in 1..Len(schema)} = RecordedVersions

\* A run without the transaction of the batch that failed in its second
\* migration, after the first one was committed on top of version 1.
C1_Witness ==
    \E p \in Procs :
        /\ Done(p)
        /\ run[p].err \in DriverErrors
        /\ ~run[p].m.inTransaction
        /\ Len(run[p].appliedMigrations) = 1
        /\ Len(run[p].toApply) = 2
        /\ RecordedVersions = {1, 2}

\* C2: a Migrate that starts right after a Migrate that returned nil, the
\* folder and the store untouched in between, never gets to validation or to
\* ApplyMigrations, holds no transaction, and returns nil unless a call to
\* the store or to the file system itself returned an error.
C2_SecondMigrateIsNoOp ==
    \A p \in Procs :
        run[p].afterOK =>
            /\ run[p].pc \in {"create", "read", "select", "check", "done"}
            /\ ~Called(p, "ApplyMigrations")
            /\ ~Called(p, "ValidateQuery")
            /\ tx[p] = NoTx
            /\ Done(p) => run[p].err \in {"nil", "ErrFs"} \cup DriverErrors
                                             \cup CtxErrors
            /\ (Done(p) /\ \A k \in 1..Len(run[p].calls) :
                               run[p].calls[k].ret = "nil")
                  => run[p].err = "nil"

\* The second Migrate returned nil with two migrations recorded.
C2_Witness ==
    \E p \in Procs :
        /\ run[p].afterOK
        /\ Done(p)
        /\ run[p].err = "nil"
        /\ Len(run[p].appliedMigrations) = 2
        /\ Len(run[p].localMigrations) = 2

\* applied is a prefix of local under (version, hash) equality.
IsPrefix(applied, local) ==
    /\ Len(applied) <= Len(local)
    /\ \A i \in 1..Len(applied) :
          <<applied[i].Version, applied[i].Hash>>
              = <<local[i].Version, local[i].Hash>>

\* C3: once the store has returned the applied list, Migrate returns
\* InvalidMigrationFile, without validating or applying anything, whenever
\* that list is not a prefix of the local one, and it does not return that
\* error when it is.
C3_PrefixCheck ==
    \A p \in Procs :
        PastCheck(p) =>
            IF IsPrefix(run[p].appliedMigrations, run[p].localMigrations)
            THEN ~(Done(p) /\ run[p].err = "ErrInvalidMigrationFile")
            ELSE /\ Done(p)
                 /\ run[p].err = "ErrInvalidMigrationFile"
                 /\ ~Called(p, "ValidateQuery")
                 /\ ~Called(p, "ApplyMigrations")

\* Migrate refused an applied list that is not longer than the local one,
\* has the local versions, and differs in a hash.
C3_Witness ==
    \E p \in Procs :
        /\ PastCheck(p)
        /\ run[p].err = "ErrInvalidMigrationFile"
        /\ Len(run[p].appliedMigrations) = 2
        /\ Len(run[p].localMigrations) = 3
        /\ \A i \in 1..2 :
              run[p].appliedMigrations[i].Version = run[p].localMigrations[i].Version
        /\ run[p].appliedMigrations[2].Hash # run[p].localMigrations[2].Hash

\* C4: every call of ApplyMigrations gets the local list without its first
\* len(applied) entries, in ascending order of version, and the transaction
\* flag that is true exactly when WithInTransaction was given; with nothing
\* applied and one file in the folder the batch is that file's migration:
\* version 1, the file's name, the hash of its trimmed content.
C4_DeltaHandedToStore ==
    \A p \in Procs :
        \A k \in 1..Len(run[p].calls) :
            run[p].calls[k].op = "ApplyMigrations" =>
                LET batch   == run[p].calls[k].migrations
                    local   == run[p].localMigrations
                    applied == run[p].appliedMigrations
                IN  /\ run[p].calls[k].inTx = ("WithInTransaction" \in run[p].opts)
                    /\ Len(batch) = Len(local) - Len(applied)
                    /\ Len(batch) > 0
                    /\ \A n \in 1..Len(batch) :
                          /\ batch[n] = local[Len(applied) + n]
                          /\ batch[n].Version = Len(applied) + n
                    /\ (applied = <<>> /\ Cardinality(folder) = 1) =>
                          \E f \in folder :
                              /\ Len(batch) = 1
                              /\ batch[1].Version = 1
                              /\ batch[1].Fname = f.name
                              /\ batch[1].Hash = computeHash(TrimSpace(f.data))

\* ApplyMigrations was called in a transaction with versions 2 and 3, version
\* 1 being applied.
C4_Witness ==
    \E p \in Procs :
        \E k \in 1..Len(run[p].calls) :
            /\ run[p].calls[k].op = "ApplyMigrations"
            /\ run[p].calls[k].inTx
            /\ Len(run[p].appliedMigrations) = 1
            /\ Len(run[p].calls[k].migrations) = 2

\* The version that the name of a file stands for.
VersionOfName(name) == Sscanf(Take(name, Index(name, <<"_">>))).val

NoDirs == \A e \in folder : ~e.isDir

\* C5: reading the folder, in any order of enumeration, either fails (with
\* InvalidMigrationFile, when the entries are all files and the file system
\* answers) or returns one migration for each file, sorted by version, with
\* the versions 1..N; so a folder whose versions do not start at 1, have a
\* gap or hold a duplicate is never read with success.
C5_LocalVersionsSequential ==
    \A p \in Procs :
        \A k \in 1..Len(run[p].calls) :
            run[p].calls[k].op = "readMigrations" =>
                LET ret   == run[p].calls[k].ret
                    local == run[p].localMigrations
                IN  /\ (NoDirs /\ ret # "ErrFs")
                          => ret \in {"nil", "ErrInvalidMigrationFile"}
                    /\ ret = "nil" =>
                          /\ Len(local) = Cardinality(folder)
                          /\ \A i \in 1..Len(local) :
                                /\ local[i].Version = i
                                /\ \E e \in folder :
                                      /\ e.name = local[i].Fname
                                      /\ VersionOfName(e.name) = i

\* Three files were read with success.
C5_Witness ==
    \E p \in Procs :
        /\ run[p].pc = "select"
        /\ Len(run[p].localMigrations) = 3
        /\ run[p].localMigrations[3].Version = 3

\* The entries of the folder whose names give a version.
Versioned == {e \in folder : parseFile(e, FALSE).err = "nil"}

\* The folder holds files only, and two of them have versions two or more
\* apart with no file of a version in between.
HasGap ==
    /\ NoDirs
    /\ \E e, f \in Versioned :
          /\ VersionOfName(f.name) - VersionOfName(e.name) >= 2
          /\ \A d \in Versioned :
                ~(/\ VersionOfName(e.name) < VersionOfName(d.name)
                  /\ VersionOfName(d.name) < VersionOfName(f.name))

StoreOps == {"CreateMigrationsTable", "SelectMigrations", "ApplyMigrations"}

\* C6 as stated: when Migrate returns InvalidMigrationFile for a folder with
\* a gap, no operation of the store has been invoked.
C6_NoStoreOperationBeforeGapError ==
    \A p \in Procs :
        (HasGap /\ Done(p) /\ run[p].err = "ErrInvalidMigrationFile")
            => \A k \in 1..Len(run[p].calls) : run[p].calls[k].op \notin StoreOps

\* C6 as amended: with a gap in the folder Migrate calls CreateMigrationsTable
\* and reads the folder, and nothing else: it never calls SelectMigrations or
\* ApplyMigrations and writes no row and no statement; it returns the error of
\* CreateMigrationsTable if that failed, and else InvalidMigrationFile (or the
\* error of the file system).
C6_GapFailsAfterCreateTableOnly ==
    \A p \in Procs :
        (HasGap /\ run[p].pc \notin {"idle", "panic"}) =>
            /\ run[p].pc \in {"create", "read", "done"}
            /\ \A k \in 1..Len(run[p].calls) :
                  run[p].calls[k].op \in {"CreateMigrationsTable", "readMigrations"}
            /\ rows = {} /\ schema = <<>> /\ tx[p] = NoTx
            /\ Done(p) =>
                  /\ run[p].calls[1].op = "CreateMigrationsTable"
                  /\ IF run[p].calls[1].ret # "nil"
                     THEN run[p].err = run[p].calls[1].ret
                     ELSE run[p].err \in {"ErrInvalidMigrationFile", "ErrFs"}
                  /\ run[p].err = "ErrInvalidMigrationFile" =>
                        /\ tableExists
                        /\ Len(run[p].calls) = 2
                        /\ run[p].calls[2] = [op  |-> "readMigrations",
                                              ret |-> "ErrInvalidMigrationFile"]

\* Migrate returned InvalidMigrationFile for a folder with the versions 1 and
\* 3, the tracking table created.
C6_Witness ==
    \E p \in Procs :
        /\ HasGap
        /\ Done(p)
        /\ run[p].err = "ErrInvalidMigrationFile"
        /\ tableExists
        /\ {e.name : e \in folder} = {VersionName(1), VersionName(3)}

\* The content of the file is empty or white space only.
Blank(data) == TrimSpace(data) = <<>>

\* C7 as stated: no parsed migration has an empty list of statements, and the
\* migration of a file that is empty or holds white space only is never
\* handed to ApplyMigrations.
C7_BlankFileIsHardError ==
    \A p \in Procs :
        /\ \A i \in 1..Len(run[p].localMigrations) :
              Len(run[p].localMigrations[i].Statements) > 0
        /\ \A k \in 1..Len(run[p].calls) :
              run[p].calls[k].op = "ApplyMigrations" =>
                  \A n \in 1..Len(run[p].calls[k].migrations) :
                      \A e \in folder :
                          e.name = run[p].calls[k].migrations[n].Fname
                              => ~Blank(e.data)

\* d is c with its i-th character removed.
RemoveAt(c, i) == SubSeq(c, 1, i - 1) \o SubSeq(c, i + 1, Len(c))

\* d is c changed in one character: one substituted, inserted or deleted.
SingleEdit(c, d) ==
    \/ /\ Len(c) = Len(d)
       /\ Cardinality({i \in 1..Len(c) : c[i] # d[i]}) = 1
    \/ /\ Len(d) = Len(c) + 1
       /\ \E i \in 1..Len(d) : RemoveAt(d, i) = c
    \/ /\ Len(c) = Len(d) + 1
       /\ \E i \in 1..Len(c) : RemoveAt(c, i) = d

\* The applied files whose content is one character away from the content
\* they were applied with: <<what was recorded, the file as it is now>>.
Drifted ==
    {x \in appliedData \X folder :
        x[2].name = x[1].fname /\ SingleEdit(x[1].data, x[2].data)}

RecordedHash(version) == (CHOOSE r \in rows : r.version = version).hash

\* Migrate got as far as its prefix check and has returned.
CheckedAndDone(p) == Done(p) /\ PastCheck(p)

\* C8 as stated: every change of one character in an applied file, white
\* space at its ends included, changes its hash and makes the Migrate that
\* checks it return InvalidMigrationFile.
C8_AnySingleCharacterChangeDetected ==
    \A x \in Drifted :
        /\ computeHash(TrimSpace(x[2].data)) # RecordedHash(x[1].version)
        /\ \A p \in Procs :
              CheckedAndDone(p) => run[p].err = "ErrInvalidMigrationFile"

\* C8 as amended: a change of one character in an applied file changes its
\* hash exactly when it changes the content as trimmed of the white space at
\* its ends, and then the Migrate that gets to the prefix check returns
\* InvalidMigrationFile.
C8_TrimmedContentChangeDetected ==
    \A x \in Drifted :
        /\ (TrimSpace(x[2].data) # TrimSpace(x[1].data))
              <=> (computeHash(TrimSpace(x[2].data)) # RecordedHash(x[1].version))
        /\ TrimSpace(x[2].data) # TrimSpace(x[1].data) =>
              \A p \in Procs :
                  CheckedAndDone(p) => run[p].err = "ErrInvalidMigrationFile"

\* An applied file lost its only character and Migrate refused it.
C8_Witness ==
    \E x \in Drifted, p \in Procs :
        /\ TrimSpace(x[2].data) # TrimSpace(x[1].data)
        /\ CheckedAndDone(p)
        /\ run[p].err = "ErrInvalidMigrationFile"

\* s is an integer in decimal: an optional sign and digits, nothing else.
IsInteger(s) ==
    LET d == IF s # <<>> /\ s[1] \in {"+", "-"} THEN Tail(s) ELSE s
    IN  d # <<>> /\ \A i \in 1..Len(d) : IsDigit(d[i])

\* The name has no separator, or no integer before it, or the integer zero.
BadName(name) ==
    LET idx == Index(name, <<"_">>)
    IN  \/ idx = -1
        \/ ~IsInteger(Take(name, idx))
        \/ VersionOfName(name) = 0

\* C9 as stated: a folder of files one of which has a name without separator,
\* without an integer before the separator or with the version zero is
\* refused with InvalidMigrationFile.
C9_BadFileNameRejected ==
    \A p \in Procs :
        \A k \in 1..Len(run[p].calls) :
            (/\ run[p].calls[k].op = "readMigrations"
             /\ run[p].calls[k].ret # "ErrFs"
             /\ NoDirs
             /\ \E e \in folder : BadName(e.name))
                => run[p].calls[k].ret = "ErrInvalidMigrationFile"

\* C10: when CreateMigrationsTable returns an error, Migrate has returned
\* that very error and has made no other call: the folder was not read and
\* the store, the validator not called.
C10_CreateTableErrorReturned ==
    \A p \in Procs :
        (/\ Len(run[p].calls) > 0
         /\ run[p].calls[1].op = "CreateMigrationsTable"
         /\ run[p].calls[1].ret # "nil")
            => /\ Done(p)
               /\ run[p].err = run[p].calls[1].ret
               /\ Len(run[p].calls) = 1
               /\ run[p].localMigrations = <<>>
               /\ run[p].appliedMigrations = <<>>

\* Migrate returned the error that CreateMigrationsTable gave it.
C10_Witness ==
    \E p \in Procs :
        /\ Done(p)
        /\ run[p].err = "ErrDriverB"
        /\ run[p].calls = <<[op |-> "CreateMigrationsTable", ret |-> "ErrDriverB"]>>

\* The calls of the query validator that the run has made, in order.
Queries(p) == SelectSeq(run[p].calls, LAMBDA c : c.op = "ValidateQuery")

\* The run is in ApplyMigrations, or past it.
InApply(p) ==
    \/ run[p].pc \in {"apply", "one", "exec", "insert", "commit", "txcommit"}
    \/ Called(p, "ApplyMigrations")

\* C11: a run executes a statement only inside ApplyMigrations, and it gets
\* to ApplyMigrations only when every migration of toApply has passed
\* validate, the validator (when configured) having accepted every statement
\* of the batch; when the validator rejects a statement, be it the last one
\* of the last migration, Migrate has returned InvalidQuery, ApplyMigrations
\* was not called, the run holds no transaction and no statement of a version
\* of the batch is committed.
C11_ValidationPrecedesExecution ==
    \A p \in Procs :
        /\ tx[p] # NoTx => InApply(p)
        /\ InApply(p) =>
              /\ \A n \in 1..Len(run[p].toApply) :
                    validate(run[p].toApply[n]) = "nil"
              /\ run[p].m.qvalidator =>
                    /\ Len(Queries(p)) = Len(flatten(run[p].toApply))
                    /\ \A n \in 1..Len(Queries(p)) :
                          /\ Queries(p)[n].query = flatten(run[p].toApply)[n]
                          /\ Queries(p)[n].ret = "nil"
        /\ (\E n \in 1..Len(Queries(p)) : Queries(p)[n].ret # "nil") =>
              /\ Done(p)
              /\ run[p].err = "ErrInvalidQuery"
              /\ ~Called(p, "ApplyMigrations")
              /\ tx[p] = NoTx
              /\ \A k \in 1..Len(schema), n \in 1..Len(run[p].toApply) :
                    schema[k].version # run[p].toApply[n].Version

\* The validator accepted every statement of a batch of two migrations but
\* the last one of the second, and Migrate returned InvalidQuery.
C11_Witness ==
    \E p \in Procs :
        /\ Done(p)
        /\ run[p].err = "ErrInvalidQuery"
        /\ Len(run[p].toApply) = 2
        /\ Len(Queries(p)) = Len(flatten(run[p].toApply))
        /\ Len(Queries(p)) >= 2
        /\ Queries(p)[Len(Queries(p))].ret = "ErrLint"

\* The rows the store gave the run in SelectMigrations.
SelectedRows(p) ==
    {[version |-> a.Version, fname |-> a.Fname, hash |-> a.Hash,
      applied_at |-> "set"] : a \in SeqToSet(run[p].appliedMigrations)}

\* The statements of the migrations as the database keeps them, in order.
RECURSIVE Executed(_)
Executed(ms) ==
    IF ms = <<>> THEN <<>>
    ELSE [k \in 1..Len(ms[1].Statements) |->
             [version |-> ms[1].Version, n |-> k, stmt |-> ms[1].Statements[k]]]
         \o Executed(Tail(ms))

\* The database holds the rows the run selected and, on top of them, the rows
\* and the statements of the first n migrations of the batch, and nothing
\* of a later one.
HoldsFirst(p, n) ==
    LET done == Take(run[p].toApply, n)
        top  == Len(schema) - Len(Executed(done))
    IN  /\ rows = SelectedRows(p) \cup {rowOf(done[k]) : k \in 1..n}
        /\ top >= 0
        /\ SubSeq(schema, top + 1, Len(schema)) = Executed(done)
        /\ \A k \in 1..top : schema[k].version < run[p].toApply[1].Version

\* ApplyMigrations of the run failed, in the step of applyOne named by from.
ApplyFailed(p) ==
    /\ Done(p)
    /\ Called(p, "ApplyMigrations")
    /\ run[p].err # "nil"

\* C12: in an ApplyMigrations without the transaction of the batch, while
\* the i-th migration is at work the database holds exactly the first i - 1
\* migrations of the batch and the open transaction holds statements and row
\* of the i-th only; when the i-th fails (at a statement, at its insert, at
\* begin or commit) the run is over with that state: the first i - 1
\* migrations recorded with their statements, nothing of the i-th, its
\* transaction rolled back, and no later migration begun.
C12_PartialFailureKeepsFirstN ==
    \A p \in Procs :
        (Called(p, "ApplyMigrations") /\ ~run[p].m.inTransaction) =>
            /\ run[p].i \in 1..Len(run[p].toApply)
            /\ \A k \in 1..Len(tx[p].stmts) :
                  tx[p].stmts[k].version = run[p].toApply[run[p].i].Version
            /\ \A k \in 1..Len(tx[p].rows) :
                  tx[p].rows[k] = rowOf(run[p].toApply[run[p].i])
            /\ IF Done(p) /\ run[p].err = "nil"
               THEN HoldsFirst(p, Len(run[p].toApply))
               ELSE HoldsFirst(p, run[p].i - 1)
            /\ ApplyFailed(p) =>
                  /\ tx[p] = NoTx
                  /\ run[p].from \in {"one", "exec", "insert", "commit"}
                  /\ run[p].err \in DriverErrors \cup CtxErrors

\* Without the transaction of the batch, the second of three migrations
\* failed at its insert, its statement executed before: the first one is
\* recorded on an empty table, the other two are not.
C12_Witness ==
    \E p \in Procs :
        /\ ApplyFailed(p)
        /\ ~run[p].m.inTransaction
        /\ run[p].from = "insert"
        /\ run[p].i = 2
        /\ Len(run[p].toApply) = 3
        /\ Len(run[p].toApply[2].Statements) > 0
        /\ RecordedVersions = {1}

\* The database is as the run found it when Migrate was called.
AsAtStart(p) ==
    /\ rows = run[p].start.rows
    /\ schema = run[p].start.schema

\* C13: in an ApplyMigrations with the transaction of the batch the database
\* is, from the call until the commit of the batch, exactly as it was before
\* the call; when the call has returned, either it returned nil and every
\* migration of the batch has its row recorded and its statements committed,
\* in order, on top of what was there, or it returned an error (of BeginTx,
\* of a statement, of an insert or of the commit) and the database is still
\* exactly as before; in both cases no transaction is left open.
C13_BatchIsAtomic ==
    \A p \in Procs :
        (run[p].m.inTransaction
            /\ (run[p].pc = "apply" \/ Called(p, "ApplyMigrations"))) =>
            /\ IF Done(p) /\ run[p].err = "nil"
               THEN /\ rows = run[p].start.rows
                              \cup {rowOf(m) : m \in SeqToSet(run[p].toApply)}
                    /\ Cardinality(rows) = Cardinality(run[p].start.rows)
                                              + Len(run[p].toApply)
                    /\ schema = run[p].start.schema \o Executed(run[p].toApply)
               ELSE AsAtStart(p)
            /\ Done(p) => tx[p] = NoTx
            /\ ApplyFailed(p) =>
                  /\ run[p].from \in {"apply", "exec", "insert", "txcommit"}
                  /\ run[p].err \in DriverErrors \cup CtxErrors

\* In the transaction of the batch the second of two migrations failed at its
\* insert, the first one executed and inserted before: on top of a table
\* with one row, nothing was recorded.
C13_Witness ==
    \E p \in Procs :
        /\ ApplyFailed(p)
        /\ run[p].m.inTransaction
        /\ run[p].from = "insert"
        /\ run[p].i = 2
        /\ Len(run[p].toApply) = 2
        /\ RecordedVersions = {1}
        /\ Len(schema) > 0

\* The errors that come from outside Migrate: the database, the file system,
\* the query validator.
ExternalErrors ==
    DriverErrors \cup CtxErrors \cup {"ErrConstraint", "ErrFs", "ErrLint"}

\* No call the run has made returned an error from outside.
NothingFailed(p) ==
    /\ \A k \in 1..Len(run[p].calls) :
          run[p].calls[k].op # "ApplyMigrations"
              => run[p].calls[k].ret \notin ExternalErrors
    /\ Done(p) => run[p].err \notin ExternalErrors

\* C14: a Migrate that starts after a Migrate that failed inside an
\* ApplyMigrations without the transaction of the batch, the folder
\* untouched in between, finds versions 1..N recorded, N less than the M
\* files of the folder; as long as none of its calls fails from outside it
\* reads the M files, gets the N rows as a prefix of them, and when it has
\* returned it returned nil after one ApplyMigrations of exactly versions
\* N+1..M in order: their statements are committed after the ones that were
\* there, none of versions 1..N a second time, and versions 1..M are
\* recorded.
C14_RerunResumes ==
    \A p \in Procs :
        (run[p].afterPartial /\ NothingFailed(p)) =>
            LET N == Cardinality(run[p].start.rows)
                M == Cardinality(folder)
            IN  /\ {r.version : r \in run[p].start.rows} = 1..N
                /\ N < M
                /\ PastCheck(p) =>
                      /\ Len(run[p].localMigrations) = M
                      /\ Len(run[p].appliedMigrations) = N
                      /\ IsPrefix(run[p].appliedMigrations, run[p].localMigrations)
                /\ Done(p) =>
                      /\ run[p].err = "nil"
                      /\ Called(p, "ApplyMigrations")
                      /\ Len(run[p].toApply) = M - N
                      /\ \A n \in 1..(M - N) :
                            /\ run[p].toApply[n].Version = N + n
                            /\ run[p].toApply[n] = run[p].localMigrations[N + n]
                      /\ schema = run[p].start.schema \o Executed(run[p].toApply)
                      /\ \A k \in 1..Len(run[p].start.schema) :
                            run[p].start.schema[k].version <= N
                      /\ run[p].start.rows \subseteq rows
                      /\ RecordedVersions = 1..M

\* After a run that left version 1 recorded out of three files, the next run
\* applied versions 2 and 3 and returned nil.
C14_Witness ==
    \E p \in Procs :
        /\ run[p].afterPartial
        /\ Done(p)
        /\ run[p].err = "nil"
        /\ {r.version : r \in run[p].start.rows} = {1}
        /\ Len(run[p].toApply) = 2
        /\ RecordedVersions = {1, 2, 3}

\* The operations that Migrate hands its context to.
CtxOps ==
    {"CreateMigrationsTable", "SelectMigrations", "ValidateQuery",
     "ApplyMigrations"}

\* The calls of the run that were made after its context was cancelled.
CallsAfterCancel(p) ==
    IF run[p].cancelled THEN (run[p].callsBefore + 1)..Len(run[p].calls) ELSE {}

\* C15 as stated: a store or validator operation invoked after the context
\* was cancelled returns an error and has no effect (the tracking table, the
\* rows and the statements are as the call found them), it is the last call
\* of the run, and Migrate returns the error it gave (a cancellation error,
\* for ApplyMigrations).
C15_CancelledOperationsFail ==
    \A p \in Procs :
        \A k \in CallsAfterCancel(p) :
            LET c == run[p].calls[k]
            IN  c.op \in CtxOps =>
                    /\ c.op # "ApplyMigrations" => c.ret # "nil"
                    /\ tableExists = run[p].start.tableExists
                    /\ AsAtStart(p)
                    /\ k = Len(run[p].calls)
                    /\ Done(p) =>
                          IF c.op = "ApplyMigrations"
                          THEN run[p].err \in CtxErrors
                          ELSE run[p].err = c.ret

\* New has returned a Migrator and Migrate was called on it.
Constructed(p) == run[p].pc \notin {"idle", "panic"}

\* C16 as stated: a Migrator that New returned has a table name that is not
\* empty, and its Migrate never fails in reading the folder because the
\* root of the migrations, the default one included, is missing.
C16_NoConfigurationErrorInMigrate ==
    \A p \in Procs :
        Constructed(p) =>
            /\ run[p].m.migrationsTable # ""
            /\ ~(/\ Done(p)
                 /\ run[p].from = "read"
                 /\ run[p].err = "ErrFs"
                 /\ ~run[p].rootExists)

\* C17: without a query validator no ValidateQuery call is made; with one,
\* the calls of a run are, in order, the statements of toApply (the local
\* migrations after the applied ones, so no statement of an applied
\* migration), each statement once, each with the dialect of the driver, up
\* to the first statement the validator rejects; every statement of toApply
\* has been handed over and accepted when ApplyMigrations is called; and a
\* rejection is the last call of the run: Migrate returns InvalidQuery and
\* the batch is not applied.
C17_ValidatorCalledPerStatement ==
    \A p \in Procs :
        LET qs  == Queries(p)
            all == flatten(run[p].toApply)
        IN  /\ ~run[p].m.qvalidator => qs = <<>>
            /\ Len(qs) <= Len(all)
            /\ \A n \in 1..Len(qs) :
                  /\ qs[n].query = all[n]
                  /\ qs[n].dialect = Dialect
                  /\ qs[n].ret # "nil" =>
                        /\ n = Len(qs)
                        /\ run[p].calls[Len(run[p].calls)] = qs[n]
                        /\ Done(p)
                        /\ run[p].err = "ErrInvalidQuery"
            /\ \A n \in 1..Len(run[p].toApply) :
                  /\ run[p].toApply[n].Version > Len(run[p].appliedMigrations)
                  /\ run[p].toApply[n] =
                        run[p].localMigrations[Len(run[p].appliedMigrations) + n]
            /\ (run[p].m.qvalidator /\ InApply(p)) => Len(qs) = Len(all)

\* With a validator and version 1 applied, the two statements of versions 2
\* and 3 were validated and the batch went to ApplyMigrations.
C17_Witness ==
    \E p \in Procs :
        /\ run[p].m.qvalidator
        /\ Called(p, "ApplyMigrations")
        /\ Len(run[p].appliedMigrations) = 1
        /\ Len(run[p].toApply) = 2
        /\ Len(Queries(p)) = 2

\* C18: no step of any run, whatever the run comes to, takes a committed row
\* out of the tracking table or changes one (a row is its version, file
\* name, hash and time), drops the table, or adds a row whose version is not
\* above every version recorded so far.
C18_AppendOnly ==
    [][/\ rows \subseteq rows'
       /\ tableExists => tableExists'
       /\ \A r \in rows' \ rows : \A q \in rows : q.version < r.version]_vars

\* A run that found one row added a second one and then failed: the two
\* rows are in the table.
C18_Witness ==
    \E p \in Procs :
        /\ Done(p)
        /\ run[p].err # "nil"
        /\ Cardinality(run[p].start.rows) = 1
        /\ run[p].start.rows \subseteq rows
        /\ Cardinality(rows) = 2

\* The place of a call in the order of Migrate.
Rank(op) ==
    CASE op = "CreateMigrationsTable" -> 1
      [] op = "readMigrations"        -> 2
      [] op = "SelectMigrations"      -> 3
      [] op = "ValidateQuery"         -> 4
      [] op = "ApplyMigrations"       -> 5

\* The ranks that may follow a rank: the next step, the next statement for
\* the validator, and ApplyMigrations right after SelectMigrations when no
\* validator is configured.
Follows(rank) ==
    CASE rank = 1 -> {2}
      [] rank = 2 -> {3}
      [] rank = 3 -> {4, 5}
      [] rank = 4 -> {4, 5}
      [] rank = 5 -> {}

\* How a run has ended.
Applied(p) == Done(p) /\ run[p].err = "nil" /\ Called(p, "ApplyMigrations")

NoOp(p) == Done(p) /\ run[p].err = "nil" /\ ~Called(p, "ApplyMigrations")

Failed(p) == Done(p) /\ run[p].err # "nil"

\* C19: the calls of a run begin with CreateMigrationsTable and go on in
\* the order local read, SelectMigrations, ValidateQuery (any number),
\* ApplyMigrations; a call is made only after the call before it returned
\* nil; CreateMigrationsTable, the local read, SelectMigrations and
\* ApplyMigrations are called at most once; ApplyMigrations is called only
\* with a batch that is not empty; and a run that has returned has either
\* returned nil after ApplyMigrations with the whole batch recorded
\* (Applied), or nil with nothing to apply, the store as it found it
\* (NoOp), or an error (Failed).
C19_CallOrderWithoutRetry ==
    \A p \in Procs :
        LET cs == run[p].calls
        IN  /\ \A k \in 1..Len(cs) :
                  /\ k = 1 => cs[k].op = "CreateMigrationsTable"
                  /\ k > 1 =>
                        /\ Rank(cs[k].op) \in Follows(Rank(cs[k - 1].op))
                        /\ cs[k - 1].ret = "nil"
                  /\ cs[k].op = "ApplyMigrations" =>
                        /\ cs[k].migrations # <<>>
                        /\ cs[k].migrations = run[p].toApply
            /\ \A op \in StoreOps \cup {"readMigrations"} :
                  Cardinality({k \in 1..Len(cs) : cs[k].op = op}) <= 1
            /\ (Constructed(p) /\ ~Done(p)) => run[p].err = "none"
            /\ Done(p) => run[p].err # "none"
            /\ Applied(p) =>
                  /\ run[p].from \in {"commit", "txcommit"}
                  /\ \A n \in 1..Len(run[p].toApply) :
                        rowOf(run[p].toApply[n]) \in rows
            /\ NoOp(p) =>
                  /\ run[p].from = "check"
                  /\ run[p].toApply = <<>>
                  /\ Len(run[p].localMigrations) = Len(run[p].appliedMigrations)
                  /\ cs[Len(cs)] = [op |-> "SelectMigrations", ret |-> "nil"]
                  /\ AsAtStart(p)

\* A run made its six calls in order, two of them to the validator, and
\* ended as Applied.
C19_Witness ==
    \E p \in Procs :
        /\ Applied(p)
        /\ Len(run[p].calls) = 6
        /\ run[p].calls[4].op = "ValidateQuery"
        /\ run[p].calls[5].op = "ValidateQuery"
        /\ run[p].calls[6].op = "ApplyMigrations"

\* The entry is one that listFiles refuses.
Offending(e) == e.isDir \/ ~HasSuffix(e.name, SqlExt)

\* The place of the first offending entry of the enumeration, 0 for none.
FirstOffending(order) ==
    LET bad == {k \in 1..Len(order) : Offending(order[k])}
    IN  IF bad = {} THEN 0 ELSE CHOOSE k \in bad : \A l \in bad : k <= l

\* C20: for every order in which the folder may be enumerated, listFiles
\* returns the entries in that order when none is offending, and else the
\* error of the first offending one: InvalidFolder for a subdirectory,
\* InvalidMigrationFile for a name without the .sql suffix; readMigrations
\* then returns that error wherever fs.ReadFile would fail, so no file is
\* read before the listing has passed; and the local read of every run
\* returned accordingly.
C20_FirstOffendingEntryDecides ==
    /\ \A order \in Enumerations(folder) :
          LET first  == FirstOffending(order)
              listed == listFiles(order)
          IN  IF first = 0
              THEN listed = [err |-> "nil", files |-> order]
              ELSE /\ listed.files = <<>>
                   /\ listed.err = IF order[first].isDir
                                   THEN "ErrMigrationFolder"
                                   ELSE "ErrInvalidMigrationFile"
                   /\ \A failAt \in 0..Len(order) :
                         readMigrations(order, failAt) =
                             [err |-> listed.err, items |-> <<>>]
    /\ \A p \in Procs :
          \A k \in 1..Len(run[p].calls) :
              (/\ run[p].calls[k].op = "readMigrations"
               /\ run[p].calls[k].ret # "ErrFs"
               /\ \E e \in folder : Offending(e)) =>
                  /\ run[p].calls[k].ret \in
                        {IF e.isDir THEN "ErrMigrationFolder"
                         ELSE "ErrInvalidMigrationFile" :
                            e \in {x \in folder : Offending(x)}}
                  /\ Done(p)
                  /\ run[p].err = run[p].calls[k].ret
                  /\ run[p].localMigrations = <<>>

\* The folder holds a subdirectory, a file without the .sql suffix and a
\* migration, and the run returned InvalidFolder from the local read.
C20_Witness ==
    \E p \in Procs :
        /\ Done(p)
        /\ run[p].from = "read"
        /\ run[p].err = "ErrMigrationFolder"
        /\ \E e \in folder : e.isDir
        /\ \E e \in folder : ~e.isDir /\ ~HasSuffix(e.name, SqlExt)
        /\ \E e \in folder : ~Offending(e)

\* The steps of Migrate before the apply step.
PreApplySteps == {"create", "read", "select", "check", "validate"}

\* Migrate returned an error that arose before the apply step.
FailedBeforeApply(p) ==
    /\ Done(p)
    /\ run[p].err # "nil"
    /\ run[p].from \in PreApplySteps

\* C21: when Migrate has returned an error from table creation, the local
\* read, SelectMigrations, the prefix check or validation, ApplyMigrations
\* was not called, the run holds no transaction, the committed statements
\* and the rows of the tracking table are what they were when the run began,
\* and the tracking table, if it was not there before, is there now at most
\* as an empty table.
C21_PreApplyErrorLeavesStore ==
    \A p \in Procs :
        FailedBeforeApply(p) =>
            /\ ~Called(p, "ApplyMigrations")
            /\ tx[p] = NoTx
            /\ schema = run[p].start.schema
            /\ rows = run[p].start.rows
            /\ run[p].start.tableExists => tableExists
            /\ (tableExists /\ ~run[p].start.tableExists) => rows = {}

\* On a table with one row the validator rejected a statement of the batch
\* and Migrate returned InvalidQuery.
C21_Witness ==
    \E p \in Procs :
        /\ FailedBeforeApply(p)
        /\ run[p].from = "validate"
        /\ run[p].err = "ErrInvalidQuery"
        /\ Cardinality(run[p].start.rows) = 1
        /\ Len(run[p].toApply) = 2

\* The number of migrations of its batch that the run has committed: all of
\* them after a nil return, none before the commit of the transaction of
\* the batch, and else the ones before the migration at work.
CommittedCount(p) ==
    IF ~Called(p, "ApplyMigrations") THEN 0
    ELSE IF Done(p) /\ run[p].err = "nil" THEN Len(run[p].toApply)
    ELSE IF run[p].m.inTransaction THEN 0
    ELSE run[p].i - 1

\* The versions the run has committed.
CommittedVersions(p) ==
    {run[p].toApply[n].Version : n \in 1..CommittedCount(p)}

\* C22: with two runs interleaved in every way, the recorded versions are
\* 1..k with one row each; every recorded version was committed by exactly
\* one of the runs, with its row and its statements, each statement once and
\* in order, and no statement of a version that is not recorded is
\* committed; and a run whose ApplyMigrations failed, by an error of the
\* driver or by the primary key refusing a version the other run recorded,
\* holds no transaction: what it executed of that migration is rolled back.
C22_InterleavedRunsStayConsistent ==
    /\ RecordedVersions = 1..Cardinality(rows)
    /\ RecordedVersions = UNION {CommittedVersions(p) : p \in Racers}
    /\ {schema[k].version : k \in 1..Len(schema)} = RecordedVersions
    /\ \A p, q \in Racers :
          p # q => CommittedVersions(p) \cap CommittedVersions(q) = {}
    /\ \A p \in Racers :
          /\ \A n \in 1..CommittedCount(p) :
                LET m == run[p].toApply[n]
                IN  /\ rowOf(m) \in rows
                    /\ SelectSeq(schema, LAMBDA x : x.version = m.Version)
                          = Executed(<<m>>)
          /\ ApplyFailed(p) =>
                /\ tx[p] = NoTx
                /\ run[p].err \in DriverErrors \cup {"ErrConstraint"}
                /\ CommittedCount(p) < Len(run[p].toApply)

\* Both runs set out to apply versions 1 and 2; one returned nil, the other
\* had executed a statement of a version when the primary key refused its
\* row, and failed with nothing of it committed.
C22_Witness ==
    \E p, q \in Racers :
        /\ p # q
        /\ Applied(p)
        /\ Len(run[p].toApply) = 2
        /\ Len(run[q].toApply) = 2
        /\ ApplyFailed(q)
        /\ run[q].from = "insert"
        /\ run[q].err = "ErrConstraint"
        /\ CommittedCount(q) = 0
        /\ Len(schema) = Len(Executed(run[p].toApply))

\* strings.Join(pieces, sep).
RECURSIVE Join(_, _)
Join(pieces, sep) ==
    IF Len(pieces) = 0 THEN <<>>
    ELSE IF Len(pieces) = 1 THEN pieces[1]
    ELSE pieces[1] \o sep \o Join(Tail(pieces), sep)

\* The places (from 0) where the marker occurs in the content; no two
\* occurrences of this marker overlap.
Occurrences(t) ==
    {i \in 0..(Len(t) - Len(Marker)) : SubSeq(t, i + 1, i + Len(Marker)) = Marker}

\* C23: for the content of every file, the statements that strings.Split
\* makes of the trimmed content hold no marker, are one more than the
\* occurrences of the marker, and joined with the marker give the trimmed
\* content back (so no piece is trimmed or dropped); a migration read from
\* the file has exactly these statements; and when the trimmed content ends
\* with the marker the last statement is the empty one: validate does not
\* refuse it (Migrate never returns InvalidMigrationFile from validation),
\* ApplyMigrations gets it, and it is among the statements committed with
\* the migration.
C23_SplitRoundTrip ==
    \A e \in folder :
        LET t  == TrimSpace(e.data)
            st == Split(t, Marker)
        IN  /\ Join(st, Marker) = t
            /\ Len(st) = Cardinality(Occurrences(t)) + 1
            /\ \A k \in 1..Len(st) : Occurrences(st[k]) = {}
            /\ HasSuffix(t, Marker) => st[Len(st)] = <<>>
            /\ \A p \in Procs :
                  /\ \A n \in 1..Len(run[p].localMigrations) :
                        run[p].localMigrations[n].Fname = e.name =>
                            run[p].localMigrations[n].Statements = st
                  /\ ~(Done(p) /\ run[p].from = "validate"
                               /\ run[p].err = "ErrInvalidMigrationFile")
                  /\ \A k \in 1..Len(run[p].calls) :
                        run[p].calls[k].op = "ApplyMigrations" =>
                            \A n \in 1..Len(run[p].calls[k].migrations) :
                                run[p].calls[k].migrations[n].Fname = e.name =>
                                    run[p].calls[k].migrations[n].Statements = st
                  /\ (Applied(p) /\ run[p].toApply[1].Fname = e.name) =>
                        SelectSeq(schema, LAMBDA x : x.version = 1)
                            = [k \in 1..Len(st) |->
                                  [version |-> 1, n |-> k, stmt |-> st[k]]]

\* A file that holds a statement, a blank and the marker was applied: its
\* two statements, the second one empty, are committed.
C23_Witness ==
    \E p \in Procs, e \in folder :
        /\ Applied(p)
        /\ HasSuffix(TrimSpace(e.data), Marker)
        /\ Len(TrimSpace(e.data)) > Len(Marker)
        /\ Len(schema) = 2
        /\ schema[1].stmt = <<"a", " ">>
        /\ schema[2].stmt = <<>>

====
